---------------------------- MODULE Spec2Model ----------------------------
(***************************************************************************)
(* State-machine model of generate_eda_report.py: the module-level load    *)
(* and aggregation (lines 13-49), main() with its PdfPages context manager *)
(* (lines 84-247), and the pure helper wrap_text (lines 52-66).            *)
(*                                                                         *)
(* Encoding of values.  A float NaN (a missing number) is NaN == -1; every *)
(* comparison with it is false, as in IEEE arithmetic.  A category         *)
(* (subject_race, reason_for_stop) is a positive code and 0 when missing.  *)
(* A rate is kept exact, as the pair <<searched, n>> of the mean s/n.      *)
(* A string is a sequence of one-character strings.                        *)
(***************************************************************************)
EXTENDS Integers, Sequences, FiniteSets, TLC

VARIABLES
    csv,            \* the input file: [readable, columns, rows]
    faultPage,      \* the page whose rendering raises (0: none)
    keepEmpty,      \* whether the installed PdfPages leaves an empty file
    pc,             \* position of the run
    df,             \* the table, with the derived columns added so far
    aggregates,     \* overall_rate, tmp, svi_summary, race_summary, race_svi, ...
    views,          \* race_text, race_plot, reason_summary, daynight, monthly
    handle,         \* the PdfPages object: "unopened", "open", "closed"
    pages,          \* the pages saved so far, in order
    closes,         \* how many times the handle was closed
    outfile,        \* 'EDA Report.pdf' on disk: [exists, pages]
    text,           \* wrap_text: its argument
    width,          \* wrap_text: its width
    lines,          \* wrap_text: the returned lines
    wpc             \* wrap_text: "idle", "call" or "ret"

vars == <<csv, faultPage, keepEmpty, pc, df, aggregates, views, handle, pages,
          closes, outfile, text, width, lines, wpc>>

pipelineVars == <<csv, faultPage, keepEmpty, pc, df, aggregates, views, handle,
                  pages, closes, outfile>>

wrapVars == <<text, width, lines, wpc>>

----------------------------------------------------------------------------
(* Bounds of the model *)

MaxFaultRows == 2
MaxSearchRows == 2
MaxNightRows == 2
MaxViewRows == 2
MaxQuartileRows == 5
MaxReasons == 9
MaxRaces == 7
MaxTextLen == 8
MaxWidth == 4

----------------------------------------------------------------------------
(* Values *)

NaN == -1

NoCategory == 0

Columns == {"search_conducted", "date", "time", "subject_race",
            "reason_for_stop", "svi_rpl_themes"}

\* A cell of the search_conducted column as read_csv delivers it.
PyBool(b) == [ty |-> "bool", s |-> "", n |-> IF b THEN 1 ELSE 0]

PyStr(x) == [ty |-> "str", s |-> x, n |-> 0]

PyNum(k) == [ty |-> "num", s |-> "", n |-> k]

PyNaN == [ty |-> "nan", s |-> "", n |-> 0]

\* Python's ==, elementwise: NaN equals nothing, a string only an equal
\* string, and a bool compares as the number 0 or 1.
PyEq(a, b) ==
    IF a.ty = "nan" \/ b.ty = "nan" THEN FALSE
    ELSE IF a.ty = "str" \/ b.ty = "str" THEN a.ty = b.ty /\ a.s = b.s
    ELSE a.n = b.n

\* Float comparisons: false on NaN.
Ge(x, c) == x # NaN /\ x >= c

Lt(x, c) == x # NaN /\ x < c

Min(a, b) == IF a <= b THEN a ELSE b

Head_(s, k) == SubSeq(s, 1, Min(k, Len(s)))

Count(s, P(_)) == Cardinality({i \in 1..Len(s) : P(s[i])})

\* The fraction num/den rounded to the nearest integer, ties to even (the
\* rounding of Series.round); NaN when den = 0.
RoundDiv(num, den) ==
    IF den = 0 THEN NaN
    ELSE LET q == num \div den
             r == num % den
         IN  IF 2 * r < den THEN q
             ELSE IF 2 * r > den THEN q + 1
             ELSE IF q % 2 = 0 THEN q ELSE q + 1

\* True where rate a = <<s, n>> is >= rate b (both over non-empty groups).
RateGe(a, b) == a[1] * b[2] >= b[1] * a[2]

\* All orders of the summary rows S by descending search rate s/n: what a
\* sort that is not stable (sort_values, kind='quicksort') can return.
RECURSIVE SortedDesc(_)
SortedDesc(S) ==
    IF S = {} THEN {<<>>}
    ELSE UNION {
        {<<m>> \o rest : rest \in SortedDesc(S \ {m})} :
            m \in {x \in S : \A y \in S :
                      RateGe(<<x.searched, x.n>>, <<y.searched, y.n>>)}}

\* The ascending sort of a sequence of numbers.
SortAsc(s) == SortSeq(s, LAMBDA a, b : a < b)

----------------------------------------------------------------------------
(* Loader: lines 14-21 *)

\* pd.to_datetime(df['date']): a missing cell is NaT, a date that does not
\* exist raises.
NaT == <<0, 0, 0>>

DaysIn(y, m) ==
    IF m \in {4, 6, 9, 11} THEN 30
    ELSE IF m = 2
         THEN (IF y % 4 = 0 /\ (y % 100 # 0 \/ y % 400 = 0) THEN 29 ELSE 28)
    ELSE 31

DateParses(d) ==
    d = NaT \/ (d[1] >= 1 /\ d[2] \in 1..12 /\ d[3] \in 1..DaysIn(d[1], d[2]))

\* .dt.dayofweek, Monday = 0.
DayOfWeek(d) ==
    LET t == <<0, 3, 2, 5, 0, 3, 5, 1, 4, 6, 2, 4>>
        y == IF d[2] < 3 THEN d[1] - 1 ELSE d[1]
        sunday0 == (y + (y \div 4) - (y \div 100) + (y \div 400) + t[d[2]] + d[3]) % 7
    IN  (sunday0 + 6) % 7

\* pd.to_datetime(df['time'], format='%H:%M:%S', errors='coerce').dt.hour
NoTime == <<NaN, NaN, NaN>>

TimeParses(t) == t[1] \in 0..23 /\ t[2] \in 0..59 /\ t[3] \in 0..59

HourOf(t) == IF TimeParses(t) THEN t[1] ELSE NaN

\* (df['hour'] >= 18) | (df['hour'] < 6)
IsNight(hour) == Ge(hour, 18) \/ Lt(hour, 6)

\* (df['search_conducted'] == True) | (df['search_conducted'] == 'True')
OnlyLiteralTrue(x) == PyEq(x, PyBool(TRUE))

NormalizeSearch(x) == PyEq(x, PyBool(TRUE)) \/ PyEq(x, PyStr("True"))

MapRows(d, f(_)) == [i \in 1..Len(d) |-> f(d[i])]

\* An uncaught exception before main(): the process ends, nothing is open.
Raise ==
    /\ pc' = "failed"
    /\ UNCHANGED <<df, aggregates, views, handle, pages, closes, outfile>>

ReadCsv ==
    /\ pc = "read_csv"
    /\ UNCHANGED <<csv, faultPage, keepEmpty, wrapVars>>
    /\ IF ~csv.readable THEN Raise
       ELSE /\ df' = csv.rows
            /\ pc' = "normalize"
            /\ UNCHANGED <<aggregates, views, handle, pages, closes, outfile>>

Normalize ==
    /\ pc = "normalize"
    /\ UNCHANGED <<csv, faultPage, keepEmpty, wrapVars>>
    /\ IF "search_conducted" \notin csv.columns THEN Raise
       ELSE /\ df' = MapRows(df, LAMBDA r :
                       [r EXCEPT !.search_conducted = NormalizeSearch(@)])
            /\ pc' = "parse_date"
            /\ UNCHANGED <<aggregates, views, handle, pages, closes, outfile>>

ParseDate ==
    /\ pc = "parse_date"
    /\ UNCHANGED <<csv, faultPage, keepEmpty, wrapVars>>
    /\ IF "date" \notin csv.columns \/ \E i \in 1..Len(df) : ~DateParses(df[i].date)
       THEN Raise
       ELSE /\ df' = MapRows(df, LAMBDA r : r @@
                       [year |-> IF r.date = NaT THEN NaN ELSE r.date[1],
                        month |-> IF r.date = NaT THEN NaN ELSE r.date[2],
                        day_of_week |-> IF r.date = NaT THEN NaN
                                        ELSE DayOfWeek(r.date)])
            /\ pc' = "parse_time"
            /\ UNCHANGED <<aggregates, views, handle, pages, closes, outfile>>

ParseTime ==
    /\ pc = "parse_time"
    /\ UNCHANGED <<csv, faultPage, keepEmpty, wrapVars>>
    /\ IF "time" \notin csv.columns THEN Raise
       ELSE /\ df' = MapRows(df, LAMBDA r : r @@
                       [hour |-> HourOf(r.time),
                        is_night |-> IsNight(HourOf(r.time))])
            /\ pc' = "aggregate"
            /\ UNCHANGED <<aggregates, views, handle, pages, closes, outfile>>

----------------------------------------------------------------------------
(* Aggregator: lines 23-49 *)

\* groupby(key).agg(n = size, search_rate = mean of search_conducted): one
\* row per key that occurs; rows whose key is missing are dropped.
Groups(rows, key(_), missing) ==
    {[key |-> k,
      n |-> Count(rows, LAMBDA r : key(r) = k),
      searched |-> Count(rows, LAMBDA r : key(r) = k /\ r.search_conducted)] :
        k \in {key(rows[i]) : i \in 1..Len(rows)} \ {missing}}

\* (rate * 100).round(2), in hundredths of a percent.
RatePct(g) == RoundDiv(10000 * g.searched, g.n)

\* value_counts().head(k).index: the k most frequent keys; the order among
\* equal counts is not specified, so a tie at the cut can fall either way.
HeadByCount(G, k) ==
    {{g.key : g \in S} :
        S \in {T \in SUBSET G :
                 /\ Cardinality(T) = Min(k, Cardinality(G))
                 /\ \A a \in T, b \in G \ T : a.n >= b.n}}

\* Series.quantile(k/4) with linear interpolation, times 4 (xs ascending).
QuantileTimes4(xs, k) ==
    LET p == k * (Len(xs) - 1)
        lo == p \div 4
        fr == p % 4
    IN  4 * xs[lo + 1] + (IF fr = 0 THEN 0 ELSE fr * (xs[lo + 2] - xs[lo + 1]))

\* The five bin edges of pd.qcut(x, 4), times 4.
QcutEdges(xs) == [j \in 1..5 |-> QuantileTimes4(xs, j - 1)]

\* qcut raises ValueError("Bin edges must be unique") on repeated edges, and
\* on an empty column (all edges NaN).
QcutRaises(xs) ==
    Len(xs) = 0 \/ \E j \in 1..4 : QcutEdges(xs)[j] = QcutEdges(xs)[j + 1]

\* The bin (e[j], e[j+1]] holding v, the lowest edge included; 0: no bin.
QuartileOpenLowest(v, e) ==
    IF \E j \in 1..4 : e[j] < 4 * v /\ 4 * v <= e[j + 1]
    THEN CHOOSE j \in 1..4 : e[j] < 4 * v /\ 4 * v <= e[j + 1]
    ELSE 0

QuartileOf(v, e) ==
    IF \E j \in 1..4 : e[j] < 4 * v /\ 4 * v <= e[j + 1]
    THEN CHOOSE j \in 1..4 : e[j] < 4 * v /\ 4 * v <= e[j + 1]
    ELSE IF 4 * v = e[1] THEN 1 ELSE 0

QuartileLabel == <<"Q1 (low)", "Q2", "Q3", "Q4 (high)">>

\* df.dropna(subset=['svi_rpl_themes', 'search_conducted'])
DropNa(d) == SelectSeq(d, LAMBDA r : r.svi_rpl_themes # NaN)

SviValues(t) == SortAsc([i \in 1..Len(t) |-> t[i].svi_rpl_themes])

\* tmp with search_01 and svi_quartile added (lines 24-26).  The edges are
\* bound once (e \in {...}) and shared by all rows.
Tmp(d) ==
    CHOOSE t \in {MapRows(DropNa(d), LAMBDA r : r @@
                      [search_01 |-> IF r.search_conducted THEN 1 ELSE 0,
                       svi_quartile |-> QuartileOf(r.svi_rpl_themes, e)]) :
                  e \in {QcutEdges(SviValues(DropNa(d)))}} : TRUE

\* svi_summary (lines 28-33): one row per observed quartile, low to high.
SviSummary(t, nSearched, nTotal) ==
    LET G == Groups(t, LAMBDA r : r.svi_quartile, 0)
        row(q) == CHOOSE g \in G : g.key = q
    IN  MapRows(SelectSeq(<<1, 2, 3, 4>>, LAMBDA q : \E g \in G : g.key = q),
                LAMBDA q :
                    [svi_quartile |-> q, n |-> row(q).n, searched |-> row(q).searched,
                     search_rate_pct |-> RatePct(row(q)),
                     ratio_to_baseline |->
                         RoundDiv(100 * row(q).searched * nTotal, row(q).n * nSearched)])

sort_values_ascending(S) ==
    {[i \in 1..Len(o) |-> o[Len(o) + 1 - i]] : o \in SortedDesc(S)}

\* sort_values('search_rate', ascending=False)
sort_values(S) == SortedDesc(S)

\* race_summary (lines 35-40), before the sort.
RaceGroups(d) ==
    {[subject_race |-> g.key, n |-> g.n, searched |-> g.searched,
      search_rate_pct |-> RatePct(g)] :
        g \in Groups(d, LAMBDA r : r.subject_race, NoCategory)}

\* race_svi (lines 43-44): mean of search_01 per (race, quartile) of tmp_race.
RaceSvi(t, top) ==
    Groups(SelectSeq(t, LAMBDA r : r.subject_race \in top),
           LAMBDA r : <<r.subject_race, r.svi_quartile>>, <<>>)

NoAggregates ==
    [overall_rate |-> <<>>, tmp |-> <<>>, svi_summary |-> <<>>,
     race_summary |-> <<>>, top_races |-> {}, race_svi |-> {},
     n_total |-> 0, n_searched |-> 0]

Aggregate ==
    /\ pc = "aggregate"
    /\ UNCHANGED <<csv, faultPage, keepEmpty, wrapVars>>
    /\ IF \/ "svi_rpl_themes" \notin csv.columns
          \/ QcutRaises(SviValues(DropNa(df)))
          \/ "subject_race" \notin csv.columns
       THEN Raise
       ELSE \E nTotal \in {Len(df)} :
            \E nSearched \in {Count(df, LAMBDA r : r.search_conducted)} :
            \E t \in {Tmp(df)} :
            \E rs \in sort_values(RaceGroups(df)) :
            \E top \in HeadByCount(
                    Groups(t, LAMBDA r : r.subject_race, NoCategory), 5) :
                /\ aggregates' =
                     [overall_rate |-> <<nSearched, nTotal>>,
                      tmp |-> t,
                      svi_summary |-> SviSummary(t, nSearched, nTotal),
                      race_summary |-> rs,
                      top_races |-> top,
                      race_svi |-> RaceSvi(t, top),
                      n_total |-> nTotal,
                      n_searched |-> nSearched]
                /\ pc' = "open"
                /\ UNCHANGED <<df, views, handle, pages, closes, outfile>>

----------------------------------------------------------------------------
(* wrap_text: lines 52-66 *)

IsSpace(c) == c = " "

\* str.split(): the maximal runs of characters that are not whitespace.
RECURSIVE SplitFrom(_, _, _)
SplitFrom(t, word, words) ==
    IF Len(t) = 0
    THEN (IF Len(word) > 0 THEN Append(words, word) ELSE words)
    ELSE IF IsSpace(t[1])
         THEN SplitFrom(Tail(t), <<>>,
                        IF Len(word) > 0 THEN Append(words, word) ELSE words)
    ELSE SplitFrom(Tail(t), Append(word, t[1]), words)

Split(t) == SplitFrom(t, <<>>, <<>>)

\* ' '.join(words)
RECURSIVE Join(_)
Join(words) ==
    IF Len(words) = 0 THEN <<>>
    ELSE IF Len(words) = 1 THEN words[1]
    ELSE words[1] \o <<" ">> \o Join(Tail(words))

\* The test of line 58 with < in place of <=.
FitsStrictly(current, w, wd) == Len(Join(Append(current, w))) < wd

\* len(' '.join(current + [w])) <= width
Fits(current, w, wd) == Len(Join(Append(current, w))) <= wd

\* The loop of lines 57-63 over the remaining words, then lines 64-66.
RECURSIVE WrapLoop(_, _, _, _)
WrapLoop(words, out, current, wd) ==
    IF Len(words) = 0
    THEN (IF Len(current) > 0 THEN Append(out, Join(current)) ELSE out)
    ELSE IF Fits(current, words[1], wd)
         THEN WrapLoop(Tail(words), out, Append(current, words[1]), wd)
    ELSE WrapLoop(Tail(words),
                  IF Len(current) > 0 THEN Append(out, Join(current)) ELSE out,
                  <<words[1]>>, wd)

wrap_text(t, wd) == WrapLoop(Split(t), <<>>, <<>>, wd)

\* A call of wrap_text and its return.
CallWrapText ==
    /\ wpc = "call"
    /\ lines' = wrap_text(text, width)
    /\ wpc' = "ret"
    /\ UNCHANGED <<text, width, pipelineVars>>

NextWrap == CallWrapText

----------------------------------------------------------------------------
(* Renderer: main(), lines 84-247 *)

NumPages == 11

PageOrder ==
    <<"EDA Report",
      "1. Executive Summary",
      "2. Target Variable Summary",
      "3. Search Rate by Place (SVI Quartile)",
      "4. Search Rate by Race",
      "Graph 1: Search Rate by SVI Quartile (Ratio to Baseline)",
      "Graph 2: Search Rate by Race",
      "Graph 3: Search Rate by Reason for Stop",
      "Graph 4: Search Rate by Day vs Night",
      "Number of Stops per Month (by Year)",
      "5. Summary & Conclusions">>

NoViews ==
    [svi_text |-> <<>>, race_text |-> <<>>, race_plot |-> <<>>,
     top_reasons |-> {}, reason_summary |-> <<>>, daynight |-> <<>>,
     monthly |-> {}]

\* pdf.savefig(fig): one more page in the open document.
savefig(pgs, title) == Append(pgs, title)

\* add_text_page with savefig inside the paragraph loop.
add_text_page_in_loop(pgs, title, paragraphs) ==
    pgs \o [i \in 1..paragraphs |-> title]

\* add_text_page (lines 69-81): the paragraphs are laid out on one figure,
\* which is saved once.
add_text_page(pgs, title, paragraphs) == savefig(pgs, title)

\* PdfPages.close(): the document is finalized with the pages saved so far;
\* without any page the file is written only by a PdfPages that keeps empty
\* documents.
Finalized ==
    IF Len(pages) > 0 \/ keepEmpty
    THEN [exists |-> TRUE, pages |-> pages]
    ELSE [exists |-> FALSE, pages |-> <<>>]

\* An exception that leaves the with block without closing the document.
RaiseWithoutExit ==
    /\ pc' = "failed"
    /\ UNCHANGED <<df, aggregates, views, pages, handle, closes, outfile>>

\* An exception inside the with block: PdfPages.__exit__ closes the
\* document, then the exception ends the run.
RaiseInWith ==
    /\ pc' = "failed"
    /\ handle' = "closed"
    /\ closes' = closes + 1
    /\ outfile' = Finalized
    /\ UNCHANGED <<df, aggregates, views, pages>>

\* One page of main(): page number k raises when the environment makes its
\* rendering fail or when `raises` (a failure the data causes) holds.
Page(k, raises, newPages, newViews, next) ==
    /\ UNCHANGED <<csv, faultPage, keepEmpty, wrapVars>>
    /\ IF faultPage = k \/ raises THEN RaiseInWith
       ELSE /\ pages' = newPages
            /\ views' = newViews
            /\ pc' = next
            /\ UNCHANGED <<df, aggregates, handle, closes, outfile>>

OpenPdf ==
    /\ pc = "open"
    /\ handle' = "open"
    /\ pc' = "page1"
    /\ UNCHANGED <<csv, faultPage, keepEmpty, wrapVars, df, aggregates, views,
                   pages, closes, outfile>>

TitlePage ==
    /\ pc = "page1"
    /\ Page(1, FALSE, savefig(pages, PageOrder[1]), views, "page2")

ExecutiveSummary ==
    /\ pc = "page2"
    /\ Page(2, FALSE, add_text_page(pages, PageOrder[2], 3), views, "page3")

TargetSummary ==
    /\ pc = "page3"
    /\ Page(3, FALSE, add_text_page(pages, PageOrder[3], 5), views, "page4")

SviTextPage ==
    /\ pc = "page4"
    /\ Page(4, FALSE, add_text_page(pages, PageOrder[4], 3),
            [views EXCEPT !.svi_text =
                MapRows(aggregates.svi_summary, LAMBDA r :
                    <<QuartileLabel[r.svi_quartile], r.search_rate_pct>>)],
            "page5")

RaceTextPage ==
    /\ pc = "page5"
    /\ Page(5, FALSE, add_text_page(pages, PageOrder[5], 2),
            [views EXCEPT !.race_text = Head_(aggregates.race_summary, 5)],
            "page6")

Graph1 ==
    /\ pc = "page6"
    /\ Page(6, FALSE, savefig(pages, PageOrder[6]), views, "page7")

Graph2 ==
    /\ pc = "page7"
    /\ Page(7, FALSE, savefig(pages, PageOrder[7]),
            [views EXCEPT !.race_plot = Head_(aggregates.race_summary, 6)],
            "page8")

\* df['reason_for_stop'].value_counts().head(8).index.tolist()
TopReasons(d) ==
    HeadByCount(Groups(d, LAMBDA r : r.reason_for_stop, NoCategory), 8)

\* The reason table without the isin filter.
ReasonDfUnfiltered(d, top) == d

\* df[df['reason_for_stop'].isin(top_reasons)]
ReasonDf(d, top) == SelectSeq(d, LAMBDA r : r.reason_for_stop \in top)

\* reason_summary (lines 177-179), before the sort.
ReasonGroups(d) ==
    {[reason_for_stop |-> g.key, n |-> g.n, searched |-> g.searched] :
        g \in Groups(d, LAMBDA r : r.reason_for_stop, NoCategory)}

\* daynight (lines 194-197): one row per value of is_night that occurs.
DayNight(d) ==
    MapRows(SelectSeq(<<FALSE, TRUE>>,
                      LAMBDA b : \E i \in 1..Len(d) : d[i].is_night = b),
            LAMBDA b :
                [is_night |-> b,
                 n |-> Count(d, LAMBDA r : r.is_night = b),
                 searched |-> Count(d, LAMBDA r : r.is_night = b /\ r.search_conducted),
                 label |-> IF b THEN "Night" ELSE "Day"])

\* monthly and monthly_search (lines 208-212): stops and search rate per
\* (year, month); rows without a date fall out of the groupby.
Monthly(d) == Groups(d, LAMBDA r : <<r.year, r.month>>, <<NaN, NaN>>)

Graph3 ==
    /\ pc = "page8"
    /\ \E top \in TopReasons(df) :
       \E rs \in sort_values(ReasonGroups(ReasonDf(df, top))) :
           Page(8, "reason_for_stop" \notin csv.columns,
                savefig(pages, PageOrder[8]),
                [views EXCEPT !.top_reasons = top, !.reason_summary = rs],
                "page9")

Graph4 ==
    /\ pc = "page9"
    /\ Page(9, FALSE, savefig(pages, PageOrder[9]),
            [views EXCEPT !.daynight = DayNight(df)], "page10")

\* DataFrame.plot raises TypeError("no numeric data to plot") on the empty
\* pivot of a table in which no row has a date.
Graph5 ==
    /\ pc = "page10"
    /\ Page(10, Monthly(df) = {}, savefig(pages, PageOrder[10]),
            [views EXCEPT !.monthly = Monthly(df)], "page11")

SummaryPage ==
    /\ pc = "page11"
    /\ Page(11, FALSE, add_text_page(pages, PageOrder[11], 6), views, "exit")

\* Leaving the with block normally: PdfPages.__exit__ closes the document.
ExitWith ==
    /\ pc = "exit"
    /\ handle' = "closed"
    /\ closes' = closes + 1
    /\ outfile' = Finalized
    /\ pc' = "print"
    /\ UNCHANGED <<csv, faultPage, keepEmpty, wrapVars, df, aggregates, views, pages>>

\* print('Report saved to EDA Report.pdf')
PrintSaved ==
    /\ pc = "print"
    /\ pc' = "done"
    /\ UNCHANGED <<csv, faultPage, keepEmpty, wrapVars, df, aggregates, views,
                   handle, pages, closes, outfile>>

Next ==
    \/ ReadCsv \/ Normalize \/ ParseDate \/ ParseTime \/ Aggregate
    \/ OpenPdf \/ TitlePage \/ ExecutiveSummary \/ TargetSummary
    \/ SviTextPage \/ RaceTextPage \/ Graph1 \/ Graph2 \/ Graph3
    \/ Graph4 \/ Graph5 \/ SummaryPage \/ ExitWith \/ PrintSaved

----------------------------------------------------------------------------
(* Inputs *)

Row(search, date, time, race, reason, svi) ==
    [search_conducted |-> search, date |-> date, time |-> time,
     subject_race |-> race, reason_for_stop |-> reason, svi_rpl_themes |-> svi]

\* Non-decreasing sequences of n codes in lo..hi: tables up to row order.
RECURSIVE NonDecreasing(_, _, _)
NonDecreasing(n, lo, hi) ==
    IF n = 0 THEN {<<>>}
    ELSE UNION {{<<c>> \o s : s \in NonDecreasing(n - 1, c, hi)} : c \in lo..hi}

\* The state before the script starts, reading `file`.
StartRun(file, fault, keep) ==
    /\ csv = file
    /\ faultPage = fault
    /\ keepEmpty = keep
    /\ pc = "read_csv"
    /\ df = <<>>
    /\ aggregates = NoAggregates
    /\ views = NoViews
    /\ handle = "unopened"
    /\ pages = <<>>
    /\ closes = 0
    /\ outfile = [exists |-> FALSE, pages |-> <<>>]

Start(file, fault, keep) ==
    /\ StartRun(file, fault, keep)
    /\ text = <<>>
    /\ width = 0
    /\ lines = <<>>
    /\ wpc = "idle"

File(rows) == [readable |-> TRUE, columns |-> Columns, rows |-> rows]

\* The rows with their vulnerability scores made distinct (a missing score
\* stays missing), so that the quartile split of the table succeeds.
SpreadSvi(rows) ==
    [i \in 1..Len(rows) |->
        [rows[i] EXCEPT !.svi_rpl_themes = IF @ = NaN THEN NaN ELSE 2 + i]]

AllSeqs(S, n) == UNION {[1..k -> S] : k \in 0..n}

\* A well-formed table of two stops in tracts of different vulnerability.
BaseTable ==
    <<Row(PyBool(TRUE), <<2014, 1, 15>>, <<12, 0, 0>>, 1, 1, 1),
      Row(PyBool(FALSE), <<2015, 2, 28>>, <<23, 30, 0>>, 2, 2, 2)>>

\* Rows that decide whether the run fails: a vulnerability score that may be
\* missing, a date that may be missing or may not exist.
FaultRows ==
    {Row(PyBool(TRUE), d, <<12, 0, 0>>, 1, 1, v) :
        d \in {<<2014, 1, 15>>, NaT, <<2014, 2, 30>>}, v \in {NaN, 1, 2}}

\* The whole run, under every failure the input or the environment causes:
\* an unreadable file, a missing column, a page whose rendering raises, and
\* tables on which a parse or the quartile split fails.
Init ==
    \/ \E readable \in BOOLEAN, missing \in {{}} \cup {{c} : c \in Columns},
          fault \in 0..NumPages, keep \in BOOLEAN :
          Start([readable |-> readable, columns |-> Columns \ missing,
                 rows |-> BaseTable], fault, keep)
    \/ \E rows \in AllSeqs(FaultRows, MaxFaultRows), keep \in BOOLEAN :
          Start(File(rows), 0, keep)

Spec == Init /\ [][Next]_vars

\* The runs in which only the input can make the run fail: no rendering
\* fault, and a PdfPages that writes no file for an empty document.
InitInputs ==
    \/ \E readable \in BOOLEAN, missing \in {{}} \cup {{c} : c \in Columns} :
          Start([readable |-> readable, columns |-> Columns \ missing,
                 rows |-> BaseTable], 0, FALSE)
    \/ \E rows \in AllSeqs(FaultRows, MaxFaultRows) : Start(File(rows), 0, FALSE)

SpecInputs == InitInputs /\ [][Next]_vars

----------------------------------------------------------------------------
(* Claims about the run as a whole *)

Ended == pc \in {"done", "failed"}

IsPrefix(s, t) == Len(s) <= Len(t) /\ s = SubSeq(t, 1, Len(s))

\* C1: report generation is all-or-nothing: after a run that failed at any
\* step no output document is left behind; an output document exists after
\* the run only if every page of the report was rendered.
C1_AllOrNothing ==
    Ended /\ outfile.exists => pc = "done" /\ outfile.pages = PageOrder

\* C4: in every successful run the document receives exactly the 11 pages of
\* PageOrder, in that order, whatever the input: at every moment the pages
\* saved are a prefix of PageOrder (none skipped, repeated or reordered), and
\* a run that completes has saved all of them and finalized them in the file.
C4_FixedPageOrder ==
    /\ IsPrefix(pages, PageOrder)
    /\ pc \in {"print", "done"} =>
          pages = PageOrder /\ Len(pages) = NumPages /\ outfile.pages = PageOrder

C4_Witness == pc = "done" /\ Len(pages) = 11 /\ Len(csv.rows) > 0

\* C5 as stated: whenever the run has ended, at whatever step, the handle
\* has been closed exactly once.
C5_ClosedOnceAtAnyStep == Ended => closes = 1 /\ handle = "closed"

\* C5 amended: the handle is opened only once load and aggregation have
\* succeeded; a run that fails before that never opens or closes it; once
\* opened it is closed exactly once, when the run completes and when any
\* page fails; it is never open when the run has ended; and a page is
\* written only while it is open.
C5_HandleDiscipline ==
    /\ [](/\ closes = (IF handle = "closed" THEN 1 ELSE 0)
          /\ (Ended => handle # "open")
          /\ (Ended /\ pages # <<>> => handle = "closed" /\ closes = 1)
          /\ (pc = "done" => handle = "closed")
          /\ (handle = "unopened" => pages = <<>>))
    /\ [][/\ (pages' # pages => handle = "open" /\ handle' = "open")
          /\ (handle # "unopened" => handle' # "unopened")
          /\ (handle = "closed" => handle' = "closed")]_vars

C5_Witness == pc = "failed" /\ handle = "closed" /\ closes = 1 /\ Len(pages) = 7

----------------------------------------------------------------------------
(* Claims about the loaded columns *)

Past(labels) == pc \notin labels

Loaded == Past({"read_csv", "normalize", "parse_date", "parse_time"})

Aggregated == Loaded /\ pc # "aggregate" /\ aggregates # NoAggregates

\* Cells of search_conducted as read_csv can deliver them: booleans, boolean
\* text in several spellings, the numbers of a 0/1 column, a missing cell.
SearchCells ==
    {PyBool(TRUE), PyBool(FALSE), PyStr("True"), PyStr("False"), PyStr("true"),
     PyNum(1), PyNum(0), PyNaN}

SearchRows ==
    {Row(c, <<2014, 1, 15>>, <<12, 0, 0>>, 1, 1, v) :
        c \in SearchCells, v \in {NaN, 3}}

InitSearch ==
    \E rows \in AllSeqs(SearchRows, MaxSearchRows) :
        Start(File(BaseTable \o SpreadSvi(rows)), 0, FALSE)

SpecSearch == InitSearch /\ [][Next]_vars

RawSearch(i) == csv.rows[i].search_conducted

Normalized == Past({"read_csv", "normalize"}) /\ Len(df) = Len(csv.rows)

\* What C10 says of the rest of the load: no row is dropped for a missing
\* search outcome, and the overall rate is searched rows over all rows.
SearchRateFromAllRows ==
    Aggregated =>
        /\ Len(aggregates.tmp) =
               Cardinality({i \in 1..Len(csv.rows) : csv.rows[i].svi_rpl_themes # NaN})
        /\ aggregates.n_total = Len(csv.rows)
        /\ aggregates.n_searched =
               Cardinality({i \in 1..Len(df) : df[i].search_conducted = TRUE})
        /\ aggregates.overall_rate = <<aggregates.n_searched, aggregates.n_total>>
        /\ aggregates.n_total > 0 =>
               0 <= aggregates.n_searched /\ aggregates.n_searched <= aggregates.n_total

\* C10 as stated: search_conducted is true exactly when the raw field is the
\* literal true or the text 'True', and false for every other raw value.
C10_TrueOnlyForTrueOrText ==
    Normalized =>
        \A i \in 1..Len(df) :
            /\ df[i].search_conducted \in BOOLEAN
            /\ df[i].search_conducted <=> RawSearch(i) \in {PyBool(TRUE), PyStr("True")}

\* C10 amended: after loading every search_conducted is a boolean, true
\* exactly when the raw field is the literal true, the text 'True' or a
\* number equal to 1 (which == True accepts), false for every other raw
\* value including a missing one; no row is dropped for a missing search
\* outcome, and the overall rate is the rows normalized to true over all
\* rows, within [0,1] for a non-empty table.
C10_SearchNormalized ==
    /\ Normalized =>
          \A i \in 1..Len(df) :
              /\ df[i].search_conducted \in BOOLEAN
              /\ df[i].search_conducted <=>
                    RawSearch(i) \in {PyBool(TRUE), PyStr("True"), PyNum(1)}
    /\ SearchRateFromAllRows

C10_Witness ==
    /\ pc = "done"
    /\ \E i, j, k \in 1..Len(df) :
          /\ RawSearch(i) = PyStr("True") /\ df[i].search_conducted
          /\ RawSearch(j) = PyNaN /\ ~df[j].search_conducted
          /\ csv.rows[j].svi_rpl_themes # NaN
          /\ RawSearch(k) = PyBool(TRUE)
    /\ aggregates.n_searched = 2 /\ aggregates.n_total = 4

\* Times of day around 6:00 and 18:00, a time that does not exist, a missing
\* time.
NightRows ==
    {Row(PyBool(c), <<2014, 1, 15>>, t, 1, 1, 3) :
        c \in BOOLEAN,
        t \in {<<0, 0, 0>>, <<5, 59, 59>>, <<6, 0, 0>>, <<17, 59, 59>>,
               <<18, 0, 0>>, <<23, 59, 59>>, <<24, 0, 0>>, NoTime}}

InitNight ==
    \E rows \in AllSeqs(NightRows, MaxNightRows) :
        Start(File(BaseTable \o SpreadSvi(rows)), 0, FALSE)

SpecNight == InitNight /\ [][Next]_vars

HourDerived == Past({"read_csv", "normalize", "parse_date", "parse_time"})

RECURSIVE SumN(_)
SumN(s) == IF Len(s) = 0 THEN 0 ELSE s[1].n + SumN(Tail(s))

\* The part of C2 about rows whose time parses.
NightFlagOfParsedHour ==
    HourDerived =>
        \A i \in 1..Len(df) :
            /\ df[i].hour = (IF TimeParses(csv.rows[i].time)
                             THEN csv.rows[i].time[1] ELSE NaN)
            /\ df[i].hour # NaN =>
                  (df[i].is_night = TRUE <=> (df[i].hour >= 18 \/ df[i].hour < 6))
            /\ df[i].hour \in 6..17 => df[i].is_night = FALSE

\* C2: the night flag is true exactly when the hour is >= 18 or < 6, false
\* when the hour is in 6..17, and missing when the hour is missing because
\* the time did not parse; so a row with a missing hour is counted neither
\* as Day nor as Night in the day/night view.
C2_NightFlag ==
    /\ NightFlagOfParsedHour
    /\ HourDerived =>
          \A i \in 1..Len(df) : df[i].hour = NaN => df[i].is_night \notin BOOLEAN
    /\ views.daynight # <<>> =>
          SumN(views.daynight) =
              Cardinality({i \in 1..Len(df) : df[i].hour # NaN})

----------------------------------------------------------------------------
(* Claims about the summary views *)

\* Rows that lack one grouping key, or all of them.
ViewRows ==
    {Row(PyBool(c), IF m \in {"date", "all"} THEN NaT ELSE <<2016, 7, 4>>,
         IF m \in {"time", "all"} THEN NoTime ELSE <<20, 15, 0>>,
         IF m \in {"race", "all"} THEN NoCategory ELSE 3,
         IF m \in {"reason", "all"} THEN NoCategory ELSE 3,
         IF m \in {"svi", "all"} THEN NaN ELSE 3) :
        c \in BOOLEAN, m \in {"none", "date", "time", "race", "reason", "svi", "all"}}

InitViews ==
    \E rows \in AllSeqs(ViewRows, MaxViewRows) :
        Start(File(BaseTable \o SpreadSvi(rows)), 0, FALSE)

SpecViews == InitViews /\ [][Next]_vars

RECURSIVE SumSetN(_)
SumSetN(S) ==
    IF S = {} THEN 0
    ELSE LET g == CHOOSE x \in S : TRUE IN g.n + SumSetN(S \ {g})

RECURSIVE SumSearched(_)
SumSearched(s) == IF Len(s) = 0 THEN 0 ELSE s[1].searched + SumSearched(Tail(s))

RowsWith(P(_)) == Cardinality({i \in 1..Len(df) : P(df[i])})

\* Page k of the report has been rendered (its view was computed with it).
Rendered(k) == Len(pages) >= k

\* The views whose grouping key the code treats as missing when it is
\* missing: each counts exactly the rows that have its key, and the overall
\* rate counts every row.
LocalExclusionByKey ==
    /\ Aggregated =>
          /\ aggregates.n_total = Len(df)
          /\ SumN(aggregates.svi_summary) = RowsWith(LAMBDA r : r.svi_rpl_themes # NaN)
          /\ SumN(aggregates.race_summary) =
                 RowsWith(LAMBDA r : r.subject_race # NoCategory)
          /\ NoCategory \notin aggregates.top_races
          /\ SumSetN(aggregates.race_svi) =
                 RowsWith(LAMBDA r : /\ r.svi_rpl_themes # NaN
                                     /\ r.subject_race \in aggregates.top_races)
    /\ Rendered(8) =>
          /\ NoCategory \notin views.top_reasons
          /\ SumN(views.reason_summary) =
                 RowsWith(LAMBDA r : r.reason_for_stop \in views.top_reasons)
    /\ Rendered(10) =>
          SumSetN(views.monthly) = RowsWith(LAMBDA r : r.date # NaT)

\* C3: exclusion of incomplete rows is local to a view: a row missing a
\* view's grouping key (or the vulnerability score, for the quartile views;
\* the hour, for the day/night view) is counted in neither the counts nor
\* the rates of that view, and is still counted in every other view whose
\* key it has, and in the overall rate.
C3_LocalExclusion ==
    /\ LocalExclusionByKey
    /\ Rendered(9) =>
          SumN(views.daynight) = RowsWith(LAMBDA r : r.hour # NaN)

\* Vulnerability scores with repeats and gaps, and a missing score.
SviChoices == <<NaN, 0, 1, 2, 5>>

QuartileRow(code) ==
    Row(PyBool(code % 2 = 0), <<2014, 1, 15>>, <<12, 0, 0>>, 1, 1,
        SviChoices[((code - 1) \div 2) + 1])

Reverse(s) == [i \in 1..Len(s) |-> s[Len(s) + 1 - i]]

\* Every table of up to MaxQuartileRows such rows, in ascending and in
\* descending order of score.
QuartileTables ==
    UNION {{MapRows(codes, QuartileRow), Reverse(MapRows(codes, QuartileRow))} :
              codes \in UNION {NonDecreasing(n, 1, 2 * Len(SviChoices)) :
                                  n \in 0..MaxQuartileRows}}

InitQuartile == \E rows \in QuartileTables : Start(File(rows), 0, FALSE)

SpecQuartile == InitQuartile /\ [][Next]_vars

WithScore == SelectSeq(df, LAMBDA r : r.svi_rpl_themes # NaN)

\* C6: the quartile summary partitions exactly the rows with a non-missing
\* vulnerability score: tmp holds those rows and no others, each falls in
\* exactly one of the four quartiles, a higher score never in a lower
\* quartile; the summary has one row per occupied quartile, whose count is
\* the number of rows in it; the counts sum to the number of such rows and
\* the searched counts (rate times count) to the searched rows among them.
C6_QuartilePartition ==
    Aggregated =>
        LET t == aggregates.tmp
            S == aggregates.svi_summary
        IN  /\ Len(t) = Len(WithScore)
            /\ \A i \in 1..Len(t) :
                  /\ t[i].svi_rpl_themes = WithScore[i].svi_rpl_themes
                  /\ t[i].search_conducted = WithScore[i].search_conducted
                  /\ t[i].svi_quartile \in 1..4
            /\ \A i, j \in 1..Len(t) :
                  t[i].svi_rpl_themes <= t[j].svi_rpl_themes =>
                      t[i].svi_quartile <= t[j].svi_quartile
            /\ \A i, j \in 1..Len(S) : i < j => S[i].svi_quartile < S[j].svi_quartile
            /\ \A q \in 1..4 :
                  LET inQ == {i \in 1..Len(t) : t[i].svi_quartile = q}
                  IN  IF inQ = {} THEN \A k \in 1..Len(S) : S[k].svi_quartile # q
                      ELSE \E k \in 1..Len(S) :
                              /\ S[k].svi_quartile = q
                              /\ S[k].n = Cardinality(inQ)
                              /\ S[k].searched =
                                    Cardinality({i \in inQ : t[i].search_conducted})
            /\ SumN(S) = Len(WithScore)
            /\ SumSearched(S) = Count(WithScore, LAMBDA r : r.search_conducted)

C6_Witness ==
    /\ pc = "done"
    /\ Len(WithScore) < Len(df)
    /\ Len(aggregates.svi_summary) = 3
    /\ \E k \in 1..3 : aggregates.svi_summary[k].n = 2
    /\ SumSearched(aggregates.svi_summary) = 1

\* <<k, i>> for the i-th stop of category k, counts[k] stops per category.
RECURSIVE Expand(_, _)
Expand(k, counts) ==
    IF k > Len(counts) THEN <<>>
    ELSE [i \in 1..counts[k] |-> <<k, i>>] \o Expand(k + 1, counts)

\* Tables over the reasons 1..MaxReasons: reason k is given in k or k + 1
\* stops, the first of them searched, and one more stop may lack a reason.
ReasonTables ==
    {SpreadSvi(
        MapRows(Expand(1, [k \in 1..MaxReasons |-> k + more[k]]),
                LAMBDA e : Row(PyBool(e[2] = 1), <<2014, 1, 15>>, <<12, 0, 0>>,
                               1, e[1], 1))
        \o (IF lacking
            THEN <<Row(PyBool(TRUE), <<2014, 1, 15>>, <<12, 0, 0>>, 1, NoCategory, 1)>>
            ELSE <<>>)) :
        more \in [1..MaxReasons -> {0, 1}], lacking \in BOOLEAN}

InitReason == \E rows \in ReasonTables : Start(File(rows), 0, FALSE)

SpecReason == InitReason /\ [][Next]_vars

StopsFor(reason) == RowsWith(LAMBDA r : r.reason_for_stop = reason)

ReasonsPresent == {df[i].reason_for_stop : i \in 1..Len(df)} \ {NoCategory}

ReasonsShown == {views.reason_summary[i].reason_for_stop :
                    i \in 1..Len(views.reason_summary)}

\* C7: the reason-for-stop summary holds at most 8 groups, each a reason of
\* the table once, with all of its stops: the 8 most frequent reasons (all of
\* them when there are fewer).  Every reason in it has at least as many
\* stops in the whole table as any reason left out, and a reason that 8
\* others exceed in stop count never appears.
C7_TopEightReasons ==
    Rendered(8) =>
        \A present \in {ReasonsPresent}, shown \in {ReasonsShown} :
        \A stops \in {[r \in present |-> StopsFor(r)]} :
            /\ Len(views.reason_summary) <= 8
            /\ Cardinality(shown) = Len(views.reason_summary)
            /\ shown \subseteq present
            /\ Cardinality(shown) = Min(8, Cardinality(present))
            /\ \A a \in shown, b \in present \ shown : stops[a] >= stops[b]
            /\ \A a \in shown :
                  Cardinality({b \in present : stops[b] > stops[a]}) < 8
            /\ \A i \in 1..Len(views.reason_summary) :
                  views.reason_summary[i].n =
                      stops[views.reason_summary[i].reason_for_stop]

C7_Witness ==
    /\ pc = "done"
    /\ Len(views.reason_summary) = 8
    /\ Cardinality(ReasonsPresent) = 9
    /\ \E a \in ReasonsShown, b \in ReasonsPresent \ ReasonsShown :
          StopsFor(a) = StopsFor(b)
    /\ \E i \in 1..Len(df) : df[i].reason_for_stop = NoCategory

\* Tables over the races 1..MaxRaces: race k is given in k or k + 1 stops,
\* the first of them searched, or all of them for the last race; one more
\* stop lacks a race.
RaceTables ==
    {SpreadSvi(
        MapRows(Expand(1, [k \in 1..MaxRaces |-> k + more[k]]),
                LAMBDA e : Row(PyBool(e[2] = 1 \/ e[1] = all), <<2014, 1, 15>>,
                               <<12, 0, 0>>, e[1], 1, 1))
        \o <<Row(PyBool(TRUE), <<2014, 1, 15>>, <<12, 0, 0>>, NoCategory, 1, 1)>>) :
        more \in [1..MaxRaces -> {0, 1}], all \in {0, MaxRaces}}

InitRace == \E rows \in RaceTables : Start(File(rows), 0, FALSE)

SpecRace == InitRace /\ [][Next]_vars

RateOf(g) == <<g.searched, g.n>>

\* The search rate of a race, counted from the table.
RaceRate(race) ==
    <<RowsWith(LAMBDA r : r.subject_race = race /\ r.search_conducted),
      RowsWith(LAMBDA r : r.subject_race = race)>>

RacesPresent == {df[i].subject_race : i \in 1..Len(df)} \ {NoCategory}

\* The first k rows of race_summary are `shown`, and no row after them has a
\* higher rate than one of them.
ShowsHighest(shown, k) ==
    /\ shown = Head_(aggregates.race_summary, k)
    /\ \A i \in 1..Len(shown), j \in 1..Len(aggregates.race_summary) :
          j > Len(shown) => RateGe(RateOf(shown[i]), RateOf(aggregates.race_summary[j]))

\* C8: the race summary holds each race of the table once, with its own
\* search rate, sorted by descending rate: each row's rate is >= the next
\* row's, the first row has the maximum rate among all race groups, and the
\* rows in the race text (first 5) and in the race chart (first 6) are
\* groups with the highest rates.
C8_RaceSortedDescending ==
    /\ Aggregated =>
          \A S \in {aggregates.race_summary}, present \in {RacesPresent} :
          \A rate \in {[k \in present |-> RaceRate(k)]} :
              /\ \A i \in 1..Len(S) - 1 : RateGe(RateOf(S[i]), RateOf(S[i + 1]))
              /\ {S[i].subject_race : i \in 1..Len(S)} = present
              /\ Len(S) = Cardinality(present)
              /\ \A i \in 1..Len(S) : RateOf(S[i]) = rate[S[i].subject_race]
              /\ \A k \in present : RateGe(RateOf(S[1]), rate[k])
    /\ Rendered(5) => ShowsHighest(views.race_text, 5)
    /\ Rendered(7) => ShowsHighest(views.race_plot, 6)

C8_Witness ==
    /\ pc = "done"
    /\ Len(aggregates.race_summary) = 7
    /\ Len(views.race_text) = 5 /\ Len(views.race_plot) = 6
    /\ RateOf(aggregates.race_summary[1]) # RateOf(aggregates.race_summary[7])
    /\ \E i \in 1..6 : RateOf(aggregates.race_summary[i])
                           = RateOf(aggregates.race_summary[i + 1])
    /\ \E i \in 1..Len(df) : df[i].subject_race = NoCategory

----------------------------------------------------------------------------
(* Claim about wrap_text *)

Chars == {"a", "b", " "}

\* Every text of up to MaxTextLen characters, at every width up to MaxWidth.
InitWrap ==
    /\ StartRun(File(BaseTable), 0, FALSE)
    /\ text \in UNION {[1..n -> Chars] : n \in 0..MaxTextLen}
    /\ width \in 0..MaxWidth
    /\ lines = <<>>
    /\ wpc = "call"

SpecWrap == InitWrap /\ [][NextWrap]_vars

RECURSIVE Flatten(_)
Flatten(ss) == IF Len(ss) = 0 THEN <<>> ELSE ss[1] \o Flatten(Tail(ss))

\* C9: wrap_text is a greedy word-wrap: the lines hold exactly the words of
\* the text in their order, single-spaced; no line is empty; a line of two
\* or more words is at most width characters long; a line is longer than
\* width only when it is a single word longer than width; and the first
\* word of every line after the first would not have fitted on the end of
\* the line before it.
C9_GreedyWrap ==
    wpc = "ret" =>
        \A L \in {[i \in 1..Len(lines) |-> Split(lines[i])]} :
            /\ Flatten(L) = Split(text)
            /\ \A i \in 1..Len(lines) :
                  /\ Len(lines[i]) > 0 /\ Len(L[i]) > 0
                  /\ lines[i] = Join(L[i])
                  /\ Len(L[i]) >= 2 => Len(lines[i]) <= width
                  /\ Len(lines[i]) > width =>
                        Len(L[i]) = 1 /\ Len(L[i][1]) > width
                  /\ i > 1 => Len(lines[i - 1]) + 1 + Len(L[i][1]) > width

C9_Witness ==
    /\ wpc = "ret"
    /\ Len(lines) = 2
    /\ Len(lines[1]) > width
    /\ Len(Split(lines[2])) = 2
    /\ Len(lines[2]) = width

============================================================================
